---- MODULE Spec2Model ----
(***************************************************************************)
(* Model of the Municode fetcher (src/src/modules/municode).               *)
(*                                                                         *)
(*  - MunicodeFetcher.fetch_all_austin_chapters is a state machine whose   *)
(*    steps are the await points of the coroutine: the discovery call, the *)
(*    write of chapter_structure.json, one visit per listing node, the     *)
(*    completion of a chapter fetch-and-store, the pacing sleep, and the   *)
(*    final summary.  The client's methods are awaited collaborators that  *)
(*    either return or raise.                                              *)
(*  - MunicodeClient.get_clean_content is a pure function on strings; a    *)
(*    string is a sequence of one-character strings.                       *)
(***************************************************************************)
EXTENDS Integers, Sequences, FiniteSets, TLC

VARIABLES
    pc,                  \* position of fetch_all_austin_chapters
    listing,             \* the Docs array the listing request answers with
    chapters,            \* local: result of discover_chapters
    i,                   \* index of the listing node the for-loop is at
    node_id,             \* local node_id: [bound, val] (unbound before line 184 ran)
    base_chapter,        \* local base_chapter of the fetch in flight
    processed_chapters,  \* local set processed_chapters
    files,               \* names of the JSON files written completely
    trace,               \* history: I/O events (requests, outcomes, sleeps), in order
    failures,            \* history: <<key, kind>> of every failed fetch_and_store
    reported,            \* count logged at line 214, -1 while nothing is logged
    error,               \* exception that left fetch_all_austin_chapters
    raw,                 \* get_clean_content: the input string
    cleaned,             \* get_clean_content(raw)
    recleaned,           \* get_clean_content(cleaned)
    cpc,                 \* position of the get_clean_content driver
    args,                \* build_node_id: title, chapter, subchapter, article
    built,               \* build_node_id: the node id returned
    bpc                  \* position of the build_node_id driver

vars == <<pc, listing, chapters, i, node_id, base_chapter, processed_chapters,
          files, trace, failures, reported, error, raw, cleaned, recleaned, cpc,
          args, built, bpc>>

fetchVars == <<pc, listing, chapters, i, node_id, base_chapter,
               processed_chapters, files, trace, failures, reported, error>>

cleanVars == <<raw, cleaned, recleaned, cpc>>

buildVars == <<args, built, bpc>>

-----------------------------------------------------------------------------
(* Bounds *)

\* longest listing enumerated
MaxLen == 3

\* most pieces an input of get_clean_content is put together from
MaxTokens == 3

-----------------------------------------------------------------------------
(* Node ids: strings as sequences of characters; a run of characters other  *)
(* than the underscore is written as one token.                             *)

US == "_"

EmptyId == << >>
RootId == <<"TIT25LADE">>
Ch1 == <<"TIT1", US, "CH1">>
Ch2 == <<"TIT1", US, "CH2">>
Ch1SubA == <<"TIT1", US, "CH1", US, "SUBA">>
Ch1SubAArt1 == <<"TIT1", US, "CH1", US, "SUBA", US, "ART1">>

IdUniverse == {EmptyId, RootId, Ch1, Ch2, Ch1SubA}

\* A listing entry: a JSON object with an Id, a JSON object without one, or
\* a JSON value that is no object.
DictEntry(id) == [isDict |-> TRUE, hasId |-> TRUE, Id |-> id]
NoIdEntry == [isDict |-> TRUE, hasId |-> FALSE, Id |-> EmptyId]
NotADict == [isDict |-> FALSE, hasId |-> FALSE, Id |-> EmptyId]

Entries == {DictEntry(id) : id \in IdUniverse} \cup {NoIdEntry, NotADict}

ExampleListing ==
    <<DictEntry(Ch1), DictEntry(Ch1SubA), DictEntry(Ch1SubAArt1),
      DictEntry(Ch2), DictEntry(Ch1)>>

Listings ==
    UNION {[1..n -> Entries] : n \in 0..MaxLen} \cup {ExampleListing}

\* str.split('_')
RECURSIVE SplitFrom(_, _, _)
SplitFrom(s, k, cur) ==
    IF k > Len(s) THEN <<cur>>
    ELSE IF s[k] = US THEN <<cur>> \o SplitFrom(s, k + 1, << >>)
    ELSE SplitFrom(s, k + 1, Append(cur, s[k]))

Split(s) == SplitFrom(s, 1, << >>)

\* '_'.join(parts)
RECURSIVE Join(_)
Join(parts) ==
    IF Len(parts) = 0 THEN << >>
    ELSE IF Len(parts) = 1 THEN parts[1]
    ELSE parts[1] \o <<US>> \o Join(Tail(parts))

\* parts[:2]
FirstTwo(parts) == SubSeq(parts, 1, IF Len(parts) < 2 THEN Len(parts) ELSE 2)

\* line 189: '_'.join(node_id.split('_')[:2])
BaseChapter(id) == Join(FirstTwo(Split(id)))

\* line 196: len(node_id.split('_')) > 2
IsSubNode(id) == Len(Split(id)) > 2

\* chapter.get('Id', '')
GetId(entry) == IF entry.hasId THEN entry.Id ELSE EmptyId

\* Optional[str]: None, or a string
None == [some |-> FALSE, val |-> << >>]
Some(str) == [some |-> TRUE, val |-> str]

\* the parameters of build_node_id
Args(title, chapter, subchapter, article) ==
    [title |-> title, chapter |-> chapter, subchapter |-> subchapter,
     article |-> article]

NoArgs == Args(<< >>, << >>, None, None)

Unbound == [bound |-> FALSE, val |-> EmptyId]
Bound(id) == [bound |-> TRUE, val |-> id]

-----------------------------------------------------------------------------
(* fetch_all_austin_chapters *)

Init ==
    /\ pc = "start"
    /\ listing \in Listings
    /\ chapters = << >>
    /\ i = 0
    /\ node_id = Unbound
    /\ base_chapter = EmptyId
    /\ processed_chapters = {}
    /\ files = {}
    /\ trace = << >>
    /\ failures = << >>
    /\ reported = -1
    /\ error = "none"
    /\ raw = << >>
    /\ cleaned = << >>
    /\ recleaned = << >>
    /\ cpc = "idle"
    /\ args = NoArgs
    /\ built = << >>
    /\ bpc = "idle"

\* an entry of the history
Ev(ev, key, ok) == [ev |-> ev, key |-> key, ok |-> ok]

\* discover_chapters with a handler that swallows the error and answers with
\* an empty listing instead of re-raising
discover_chapters_swallowed(ok) ==
    [raised |-> FALSE, value |-> IF ok THEN listing ELSE << >>]

\* discover_chapters, lines 73-84: the listing request either answers or
\* raises; the handler logs and re-raises.
discover_chapters(ok) ==
    IF ok THEN [raised |-> FALSE, value |-> listing]
    ELSE [raised |-> TRUE, value |-> << >>]

\* line 170: await self.discover_chapters(); a raise reaches lines 216-218.
Discover ==
    /\ pc = "start"
    /\ \E ok \in BOOLEAN :
          LET r == discover_chapters(ok) IN
          /\ trace' = Append(trace, Ev("discover", EmptyId, ok))
          /\ IF r.raised
             THEN /\ pc' = "aborted"
                  /\ error' = "discovery"
                  /\ UNCHANGED chapters
             ELSE /\ pc' = "structure"
                  /\ chapters' = r.value
                  /\ UNCHANGED error
    /\ UNCHANGED <<listing, i, node_id, base_chapter, processed_chapters,
                   files, failures, reported>>
    /\ UNCHANGED cleanVars
    /\ UNCHANGED buildVars

StructureFile == <<"chapter_structure">>

\* _save_json, lines 60-61: open() or json.dump() may raise
save_json(name, ok) ==
    [raised |-> ~ok, wrote |-> IF ok THEN {name} ELSE {}]

\* lines 173-179: _save_json of the chapter structure, outside the per-node
\* try; then processed_chapters = set() and the loop starts.
SaveStructure ==
    /\ pc = "structure"
    /\ \E ok \in BOOLEAN :
          LET w == save_json(StructureFile, ok) IN
          /\ trace' = Append(trace, Ev("save", StructureFile, ok))
          /\ files' = files \cup w.wrote
          /\ IF w.raised
             THEN /\ pc' = "aborted"
                  /\ error' = "structure"
                  /\ UNCHANGED <<processed_chapters, i>>
             ELSE /\ processed_chapters' = {}
                  /\ i' = 1
                  /\ pc' = "loop"
                  /\ UNCHANGED error
    /\ UNCHANGED <<listing, chapters, node_id, base_chapter, failures,
                   reported>>
    /\ UNCHANGED cleanVars
    /\ UNCHANGED buildVars

\* lines 185-197: the three skips of the loop body
Skipped(id, processed) ==
    \/ id = EmptyId
    \/ BaseChapter(id) \in processed
    \/ IsSubNode(id)

\* lines 182-199 and 210-212 for one listing node, up to the await of
\* fetch_and_store_chapter (the content request is issued).
VisitNode ==
    /\ pc = "loop"
    /\ i <= Len(chapters)
    /\ LET chapter == chapters[i] IN
       IF ~chapter.isDict
       THEN \* chapter.get raises inside the try; the handler formats node_id
            IF node_id.bound
            THEN /\ i' = i + 1
                 /\ UNCHANGED <<pc, node_id, base_chapter, trace, error>>
            ELSE /\ pc' = "aborted"
                 /\ error' = "handler"
                 /\ UNCHANGED <<i, node_id, base_chapter, trace>>
       ELSE LET id == GetId(chapter) IN
            /\ node_id' = Bound(id)
            /\ UNCHANGED error
            /\ IF Skipped(id, processed_chapters)
               THEN /\ i' = i + 1
                    /\ UNCHANGED <<pc, base_chapter, trace>>
               ELSE /\ base_chapter' = BaseChapter(id)
                    /\ trace' = Append(trace, Ev("fetch", BaseChapter(id), TRUE))
                    /\ pc' = "fetching"
                    /\ UNCHANGED i
    /\ UNCHANGED <<listing, chapters, processed_chapters, files, failures,
                   reported>>
    /\ UNCHANGED cleanVars
    /\ UNCHANGED buildVars

\* fetch_and_store_chapter with a handler that logs the error of the content
\* request and returns instead of re-raising
fetch_and_store_chapter_not_reraised(chapter, respOk, procOk, saveOk) ==
    IF ~respOk
    THEN [raised |-> FALSE, kind |-> "transport", wrote |-> {},
          events |-> <<Ev("response", chapter, FALSE)>>]
    ELSE IF ~procOk
    THEN [raised |-> TRUE, kind |-> "processing", wrote |-> {},
          events |-> <<Ev("response", chapter, TRUE)>>]
    ELSE [raised |-> ~saveOk, kind |-> "persistence",
          wrote |-> IF saveOk THEN {chapter} ELSE {},
          events |-> <<Ev("response", chapter, TRUE),
                       Ev("save", chapter, saveOk)>>]

\* fetch_and_store_chapter with the _save_json call outside its try: an
\* error of the write is not raised to the loop
fetch_and_store_chapter_unchecked_save(chapter, respOk, procOk, saveOk) ==
    IF ~respOk
    THEN [raised |-> TRUE, kind |-> "transport", wrote |-> {},
          events |-> <<Ev("response", chapter, FALSE)>>]
    ELSE IF ~procOk
    THEN [raised |-> TRUE, kind |-> "processing", wrote |-> {},
          events |-> <<Ev("response", chapter, TRUE)>>]
    ELSE [raised |-> FALSE, kind |-> "persistence",
          wrote |-> IF saveOk THEN {chapter} ELSE {},
          events |-> <<Ev("response", chapter, TRUE),
                       Ev("save", chapter, saveOk)>>]

\* fetch_and_store_chapter, lines 109-151, after the request was issued:
\* the response arrives or the request raises (line 119), the Docs are
\* processed (lines 122-140), the file is written (line 145); any raise is
\* logged and re-raised (lines 149-151).
fetch_and_store_chapter(chapter, respOk, procOk, saveOk) ==
    LET w == save_json(chapter, saveOk) IN
    IF ~respOk
    THEN [raised |-> TRUE, kind |-> "transport", wrote |-> {},
          events |-> <<Ev("response", chapter, FALSE)>>]
    ELSE IF ~procOk
    THEN [raised |-> TRUE, kind |-> "processing", wrote |-> {},
          events |-> <<Ev("response", chapter, TRUE)>>]
    ELSE [raised |-> w.raised, kind |-> "persistence", wrote |-> w.wrote,
          events |-> <<Ev("response", chapter, TRUE),
                       Ev("save", chapter, saveOk)>>]

\* the inputs of one fetch: a later step is only drawn when it is reached
FetchInputs ==
    {<<FALSE, TRUE, TRUE>>, <<TRUE, FALSE, TRUE>>,
     <<TRUE, TRUE, FALSE>>, <<TRUE, TRUE, TRUE>>}

\* lines 200-212: the awaited fetch_and_store_chapter returns (the key is
\* added, the sleep starts) or raises (logged, next node).
FetchAndStore ==
    /\ pc = "fetching"
    /\ \E in \in FetchInputs :
          LET r == fetch_and_store_chapter(base_chapter, in[1], in[2], in[3]) IN
          /\ trace' = trace \o r.events
          /\ files' = files \cup r.wrote
          /\ IF r.raised
             THEN /\ failures' = Append(failures, <<base_chapter, r.kind>>)
                  /\ pc' = "loop"
                  /\ i' = i + 1
                  /\ UNCHANGED processed_chapters
             ELSE /\ processed_chapters' = processed_chapters \cup {base_chapter}
                  /\ pc' = "sleeping"
                  /\ UNCHANGED <<failures, i>>
    /\ UNCHANGED <<listing, chapters, node_id, base_chapter, reported, error>>
    /\ UNCHANGED cleanVars
    /\ UNCHANGED buildVars

\* line 209: await asyncio.sleep(1)
Sleep ==
    /\ pc = "sleeping"
    /\ trace' = Append(trace, Ev("sleep", EmptyId, TRUE))
    /\ pc' = "loop"
    /\ i' = i + 1
    /\ UNCHANGED <<listing, chapters, node_id, base_chapter,
                   processed_chapters, files, failures, reported, error>>
    /\ UNCHANGED cleanVars
    /\ UNCHANGED buildVars

\* lines 214 and 220: the loop is exhausted.
Finish ==
    /\ pc = "loop"
    /\ i > Len(chapters)
    /\ reported' = Cardinality(processed_chapters)
    /\ pc' = "done"
    /\ UNCHANGED <<listing, chapters, i, node_id, base_chapter,
                   processed_chapters, files, trace, failures, error>>
    /\ UNCHANGED cleanVars
    /\ UNCHANGED buildVars

-----------------------------------------------------------------------------
(* MunicodeClient.get_clean_content (client.py lines 160-199)              *)

BS == "\\"
DQ == "\""
NL == "\n"
SP == " "
TAB == "\t"
\* U+0001, the character the Python literal '\1' denotes
SOH == "SOH"

\* the characters \s matches and str.strip() removes
Whitespace == {SP, NL, TAB}

\* [A-Z]
UpperCase ==
    {"A", "B", "C", "D", "E", "F", "G", "H", "I", "J", "K", "L", "M", "N",
     "O", "P", "Q", "R", "S", "T", "U", "V", "W", "X", "Y", "Z"}

\* s[k:].startswith(lit)
StartsWith(s, k, lit) ==
    /\ k + Len(lit) - 1 <= Len(s)
    /\ SubSeq(s, k, k + Len(lit) - 1) = lit

\* str.replace(lit, rep): leftmost occurrences, not overlapping
RECURSIVE ReplaceFrom(_, _, _, _)
ReplaceFrom(s, k, lit, rep) ==
    IF k > Len(s) THEN << >>
    ELSE IF StartsWith(s, k, lit)
    THEN rep \o ReplaceFrom(s, k + Len(lit), lit, rep)
    ELSE <<s[k]>> \o ReplaceFrom(s, k + 1, lit, rep)

Replace(s, lit, rep) == ReplaceFrom(s, 1, lit, rep)

\* index of the first '>' at or after k, 0 when there is none: [^>]*>
RECURSIVE FirstGt(_, _)
FirstGt(s, k) ==
    IF k > Len(s) THEN 0
    ELSE IF s[k] = ">" THEN k
    ELSE FirstGt(s, k + 1)

\* first index at or after k that holds no whitespace (Len(s)+1 at the end): \s*
RECURSIVE SkipWs(_, _)
SkipWs(s, k) ==
    IF k <= Len(s) /\ s[k] \in Whitespace THEN SkipWs(s, k + 1) ELSE k

\* line 174: re.sub(r'<div[^>]*>', '\n', content)
RECURSIVE SubDivFrom(_, _)
SubDivFrom(s, k) ==
    IF k > Len(s) THEN << >>
    ELSE IF StartsWith(s, k, <<"<", "d", "i", "v">>) /\ FirstGt(s, k + 4) # 0
    THEN <<NL>> \o SubDivFrom(s, FirstGt(s, k + 4) + 1)
    ELSE <<s[k]>> \o SubDivFrom(s, k + 1)

\* end of a match of <br\s*/?> starting at k, 0 when there is none
BrEnd(s, k) ==
    IF ~StartsWith(s, k, <<"<", "b", "r">>) THEN 0
    ELSE LET j == SkipWs(s, k + 3)
             m == IF j <= Len(s) /\ s[j] = "/" THEN j + 1 ELSE j
         IN IF m <= Len(s) /\ s[m] = ">" THEN m ELSE 0

\* line 176: re.sub(r'<br\s*/?>', '\n', content)
RECURSIVE SubBrFrom(_, _)
SubBrFrom(s, k) ==
    IF k > Len(s) THEN << >>
    ELSE IF BrEnd(s, k) # 0
    THEN <<NL>> \o SubBrFrom(s, BrEnd(s, k) + 1)
    ELSE <<s[k]>> \o SubBrFrom(s, k + 1)

\* line 177: re.sub(r'<[^>]*>', '', content)
RECURSIVE SubTagFrom(_, _)
SubTagFrom(s, k) ==
    IF k > Len(s) THEN << >>
    ELSE IF s[k] = "<" /\ FirstGt(s, k + 1) # 0
    THEN SubTagFrom(s, FirstGt(s, k + 1) + 1)
    ELSE <<s[k]>> \o SubTagFrom(s, k + 1)

\* the replacement '"\1"' of lines 184-185 is no raw string: '\1' is the
\* character U+0001, not a reference to group 1
QuoteReplacement(letter) == <<DQ, SOH, DQ>>

\* a match of \\"([A-Z])\\" at k: backslash, quote, letter, backslash, quote.
\* r'\\\"([A-Z])\\\"' (line 184) and r'\\"([A-Z])\\"' (line 185) are the
\* same regular expression: \" in a pattern is the quote itself.
QuotedLetterAt(s, k) ==
    /\ k + 4 <= Len(s)
    /\ s[k] = BS /\ s[k + 1] = DQ
    /\ s[k + 2] \in UpperCase
    /\ s[k + 3] = BS /\ s[k + 4] = DQ

\* lines 184, 185: re.sub(r'\\"([A-Z])\\"', '"\1"', content)
RECURSIVE SubQuotedFrom(_, _)
SubQuotedFrom(s, k) ==
    IF k > Len(s) THEN << >>
    ELSE IF QuotedLetterAt(s, k)
    THEN QuoteReplacement(s[k + 2]) \o SubQuotedFrom(s, k + 5)
    ELSE <<s[k]>> \o SubQuotedFrom(s, k + 1)

\* line 192: re.sub(r'\s+', ' ', content); \s matches the newline too
RECURSIVE SubSpacesFrom(_, _)
SubSpacesFrom(s, k) ==
    IF k > Len(s) THEN << >>
    ELSE IF s[k] \in Whitespace
    THEN <<SP>> \o SubSpacesFrom(s, SkipWs(s, k))
    ELSE <<s[k]>> \o SubSpacesFrom(s, k + 1)

\* the last newline of the whitespace run k..e-1, 0 when it holds none
RECURSIVE LastNl(_, _, _)
LastNl(s, k, e) ==
    IF e <= k THEN 0
    ELSE IF s[e - 1] = NL THEN e - 1
    ELSE LastNl(s, k, e - 1)

\* line 193: re.sub(r'\n\s*\n+', '\n\n', content); the greedy \s* gives back
\* until \n+ matches, so a match ends at the last newline of the run
RECURSIVE SubNewlinesFrom(_, _)
SubNewlinesFrom(s, k) ==
    IF k > Len(s) THEN << >>
    ELSE IF s[k] = NL /\ LastNl(s, k + 1, SkipWs(s, k + 1)) # 0
    THEN <<NL, NL>> \o SubNewlinesFrom(s, LastNl(s, k + 1, SkipWs(s, k + 1)) + 1)
    ELSE <<s[k]>> \o SubNewlinesFrom(s, k + 1)

\* str.strip()
RECURSIVE RStrip(_)
RStrip(s) ==
    IF Len(s) > 0 /\ s[Len(s)] \in Whitespace
    THEN RStrip(SubSeq(s, 1, Len(s) - 1))
    ELSE s

Strip(s) == LET k == SkipWs(s, 1) IN RStrip(SubSeq(s, k, Len(s)))

\* content.split('\n')
RECURSIVE SplitLinesFrom(_, _, _)
SplitLinesFrom(s, k, cur) ==
    IF k > Len(s) THEN <<cur>>
    ELSE IF s[k] = NL THEN <<cur>> \o SplitLinesFrom(s, k + 1, << >>)
    ELSE SplitLinesFrom(s, k + 1, Append(cur, s[k]))

\* lines 196-197: strip every line, drop the empty ones, join with '\n'
RECURSIVE JoinNonEmpty(_)
JoinNonEmpty(lines) ==
    IF Len(lines) = 0 THEN << >>
    ELSE LET head == Strip(lines[1])
             rest == JoinNonEmpty(Tail(lines))
         IN IF head = << >> THEN rest
            ELSE IF rest = << >> THEN head
            ELSE head \o <<NL>> \o rest

\* lines 174-177: tags
StripTags(s) ==
    SubTagFrom(SubBrFrom(Replace(SubDivFrom(s, 1),
                                 <<"<", "/", "d", "i", "v", ">">>, << >>), 1), 1)

\* lines 180-189: entity and escapes
Unescape(s) ==
    LET nbsp == Replace(s, <<"&", "n", "b", "s", "p", ";">>, <<SP>>)
        q1 == SubQuotedFrom(nbsp, 1)
        q2 == SubQuotedFrom(q1, 1)
        nl == Replace(q2, <<BS, "n">>, <<NL>>)
    IN Replace(nl, <<BS, DQ>>, <<DQ>>)

\* lines 192-199: whitespace
Normalize(s) ==
    Strip(JoinNonEmpty(SplitLinesFrom(SubNewlinesFrom(SubSpacesFrom(s, 1), 1),
                                      1, << >>)))

get_clean_content(content) ==
    IF content = << >> THEN << >>
    ELSE Normalize(Unescape(StripTags(content)))

\* The strings get_clean_content is applied to: up to MaxTokens pieces of
\* markup, escapes and text, and the examples of the documentation.
Tokens ==
    {<<"<", "d", "i", "v", ">">>, <<"<", "/", "d", "i", "v", ">">>,
     <<"<", "b", "r", ">">>, <<"<", "b", "r", SP, "/", ">">>,
     <<"<", "b", ">">>, <<"&", "n", "b", "s", "p", ";">>,
     <<BS, DQ>>, <<BS, "n">>, <<BS, DQ, "P", BS, DQ>>,
     <<"A">>, <<"B">>, <<SP>>, <<NL>>, <<BS>>, <<DQ>>, <<"<">>, <<">">>}

RECURSIVE Concat(_)
Concat(pieces) ==
    IF Len(pieces) = 0 THEN << >> ELSE pieces[1] \o Concat(Tail(pieces))

\* <div>A</div><br>B
ExampleDivBr ==
    <<"<", "d", "i", "v", ">", "A", "<", "/", "d", "i", "v", ">",
      "<", "b", "r", ">", "B">>

\* Value \\"P\\" here
ExampleDoubleEscaped ==
    <<"V", "a", "l", "u", "e", SP, BS, BS, DQ, "P", BS, BS, DQ, SP,
      "h", "e", "r", "e">>

\* Value \"P\" here
ExampleSingleEscaped ==
    <<"V", "a", "l", "u", "e", SP, BS, DQ, "P", BS, DQ, SP,
      "h", "e", "r", "e">>

\* \"L\" and \\"L\\", the escaped forms of a quoted letter L
SingleEscaped(letter) == <<BS, DQ, letter, BS, DQ>>
DoubleEscaped(letter) == <<BS, BS, DQ, letter, BS, BS, DQ>>

CleanInputs ==
    {Concat(t) : t \in UNION {[1..n -> Tokens] : n \in 0..MaxTokens}}
    \cup {ExampleDivBr, ExampleDoubleEscaped, ExampleSingleEscaped}
    \cup {SingleEscaped(l) : l \in UpperCase}
    \cup {DoubleEscaped(l) : l \in UpperCase}

InitClean ==
    /\ pc = "idle"
    /\ listing = << >>
    /\ chapters = << >>
    /\ i = 0
    /\ node_id = Unbound
    /\ base_chapter = EmptyId
    /\ processed_chapters = {}
    /\ files = {}
    /\ trace = << >>
    /\ failures = << >>
    /\ reported = -1
    /\ error = "none"
    /\ raw \in CleanInputs
    /\ cleaned = << >>
    /\ recleaned = << >>
    /\ cpc = "input"
    /\ args = NoArgs
    /\ built = << >>
    /\ bpc = "idle"

\* cleaned = MunicodeClient.get_clean_content(raw)
Clean ==
    /\ cpc = "input"
    /\ cleaned' = get_clean_content(raw)
    /\ cpc' = "cleaned"
    /\ UNCHANGED <<raw, recleaned>>
    /\ UNCHANGED fetchVars
    /\ UNCHANGED buildVars

\* recleaned = MunicodeClient.get_clean_content(cleaned)
Reclean ==
    /\ cpc = "cleaned"
    /\ recleaned' = get_clean_content(cleaned)
    /\ cpc' = "recleaned"
    /\ UNCHANGED <<raw, cleaned>>
    /\ UNCHANGED fetchVars
    /\ UNCHANGED buildVars

NextClean ==
    \/ Clean
    \/ Reclean

SpecClean == InitClean /\ [][NextClean]_vars

-----------------------------------------------------------------------------
Next ==
    \/ Discover
    \/ SaveStructure
    \/ VisitNode
    \/ FetchAndStore
    \/ Sleep
    \/ Finish

Spec == Init /\ [][Next]_vars

-----------------------------------------------------------------------------
(* MunicodeClient.build_node_id (client.py lines 92-111)                   *)

\* the truth value of an Optional[str]: None and '' are false
Truthy(opt) == opt.some /\ opt.val # << >>

\* build_node_id with the article appended before the subchapter
build_node_id_article_first(title, chapter, subchapter, article) ==
    LET base == <<"T", "I", "T">> \o title \o <<US, "C", "H">> \o chapter
        withArt == IF Truthy(article) THEN base \o <<US>> \o article.val
                   ELSE base
    IN IF Truthy(subchapter) THEN withArt \o <<US>> \o subchapter.val
       ELSE withArt

\* lines 106-111
build_node_id(title, chapter, subchapter, article) ==
    LET base == <<"T", "I", "T">> \o title \o <<US, "C", "H">> \o chapter
        withSub == IF Truthy(subchapter) THEN base \o <<US>> \o subchapter.val
                   ELSE base
    IN IF Truthy(article) THEN withSub \o <<US>> \o article.val
       ELSE withSub

\* '25LADE' and '25-2ZO'
Title25LADE == <<"2", "5", "L", "A", "D", "E">>
Chapter25ZO == <<"2", "5", "-", "2", "Z", "O">>

\* titles and chapters, one of each holding an underscore
Titles == {Title25LADE, <<"1">>, <<"3", "0", US, "X">>}
ChapterArgs == {Chapter25ZO, <<"1">>, <<"2", "5", US, "2">>}

\* subchapters and articles: absent, empty, plain, and holding an underscore
\* as the article of test.py line 12 does
OptionalArgs ==
    {None, Some(<< >>), Some(<<"S", "U", "B">>), Some(<<"A", "R", "T", "1">>),
     Some(<<"C", "U", US, "A", "R", "T", "2">>)}

InitBuild ==
    /\ pc = "idle"
    /\ listing = << >>
    /\ chapters = << >>
    /\ i = 0
    /\ node_id = Unbound
    /\ base_chapter = EmptyId
    /\ processed_chapters = {}
    /\ files = {}
    /\ trace = << >>
    /\ failures = << >>
    /\ reported = -1
    /\ error = "none"
    /\ raw = << >>
    /\ cleaned = << >>
    /\ recleaned = << >>
    /\ cpc = "idle"
    /\ args \in {Args(t, c, s, a) : t \in Titles, c \in ChapterArgs,
                                    s \in OptionalArgs, a \in OptionalArgs}
    /\ built = << >>
    /\ bpc = "input"

\* built = MunicodeClient.build_node_id(title, chapter, subchapter, article)
BuildNodeId ==
    /\ bpc = "input"
    /\ built' = build_node_id(args.title, args.chapter, args.subchapter,
                              args.article)
    /\ bpc' = "built"
    /\ UNCHANGED args
    /\ UNCHANGED fetchVars
    /\ UNCHANGED cleanVars

NextBuild == BuildNodeId

SpecBuild == InitBuild /\ [][NextBuild]_vars

-----------------------------------------------------------------------------
(* Properties of fetch_all_austin_chapters                                 *)

\* the positions of the content requests in the history
FetchPositions == {p \in DOMAIN trace : trace[p].ev = "fetch"}

\* the chapter keys targeted, in the order of their requests
RECURSIVE KeysOf(_)
KeysOf(events) ==
    IF Len(events) = 0 THEN << >>
    ELSE IF events[1].ev = "fetch" THEN <<events[1].key>> \o KeysOf(Tail(events))
    ELSE KeysOf(Tail(events))

TargetKeys == KeysOf(trace)

Range(seq) == {seq[k] : k \in DOMAIN seq}

DiscoveryFailed == Len(trace) > 0 /\ trace[1] = Ev("discover", EmptyId, FALSE)

\* a listing entry that names a chapter: an object whose id is not empty and
\* has at most two underscore-delimited segments
NamesChapter(entry) ==
    entry.isDict /\ entry.hasId /\ entry.Id # EmptyId /\ Len(Split(entry.Id)) <= 2

\* the ids of the entries that name a chapter, each at its first appearance
RECURSIVE FirstAppearances(_, _)
FirstAppearances(entries, seen) ==
    IF Len(entries) = 0 THEN << >>
    ELSE LET e == entries[1] IN
         IF NamesChapter(e) /\ e.Id \notin seen
         THEN <<e.Id>> \o FirstAppearances(Tail(entries), seen \cup {e.Id})
         ELSE FirstAppearances(Tail(entries), seen)

\* C1: if the fetch-and-store of a chapter key K fails, the error does not
\* leave the loop, every later listing node is still visited and fetched
\* when it names a chapter, and the processed count reported at the end
\* excludes K.
C1_FailedChapterIsolated ==
    /\ Len(failures) > 0 => pc # "aborted"
    /\ pc = "done" =>
          /\ i = Len(chapters) + 1
          /\ \A j \in DOMAIN listing :
                NamesChapter(listing[j]) => listing[j].Id \in Range(TargetKeys)
          /\ reported = Cardinality(processed_chapters)
          /\ \A k \in DOMAIN failures : failures[k][1] \notin processed_chapters

\* C2: within one run a content request is issued at most once per chapter
\* key, whatever succeeds or fails: no key is requested a second time.
C2_OneRequestPerKey ==
    \A p, q \in FetchPositions : trace[p].key = trace[q].key => p = q

\* C3: the chapter keys targeted are the keys of the listing in the order of
\* their first appearance, never an id of more than two segments, and
\* entries without id do not disturb the order; the listing [TIT1_CH1,
\* TIT1_CH1_SUBA, TIT1_CH1_SUBA_ART1, TIT1_CH2, TIT1_CH1] yields exactly
\* [TIT1_CH1, TIT1_CH2].
C3_TargetsInFirstAppearanceOrder ==
    /\ \A p \in FetchPositions : Len(Split(trace[p].key)) <= 2
    /\ pc = "done" => TargetKeys = FirstAppearances(listing, {})
    /\ (pc = "done" /\ listing = ExampleListing) => TargetKeys = <<Ch1, Ch2>>

\* C4: a malformed id (empty, or a single segment without underscore such
\* as the root id TIT25LADE) is skipped silently: it raises no error and no
\* content request is ever issued for it.
C4_MalformedIdNeverFetched ==
    /\ \A p \in FetchPositions :
          trace[p].key # EmptyId /\ Len(Split(trace[p].key)) >= 2
    /\ \A k \in DOMAIN failures : Len(Split(failures[k][1])) >= 2

\* C5: if the discovery request fails, the error leaves discover_chapters
\* and fetch_all_austin_chapters, and the run issues no content request,
\* writes no file and reports no processed count.
C5_DiscoveryFailureAborts ==
    DiscoveryFailed =>
        /\ pc = "aborted"
        /\ error = "discovery"
        /\ FetchPositions = {}
        /\ files = {}
        /\ reported = -1

C5_Witness ==
    DiscoveryFailed /\ pc = "aborted" /\ listing = <<DictEntry(Ch1), DictEntry(Ch2)>>

\* C6: a run ends completed, every listing node visited, or aborted, and it
\* aborts only when the discovery failed: no failure after a successful
\* discovery (a persistence write included) aborts it.
C6_AbortsOnlyOnDiscoveryFailure ==
    /\ pc = "done" => (i = Len(chapters) + 1 /\ error = "none")
    /\ pc = "aborted" => DiscoveryFailed
    /\ error # "none" => DiscoveryFailed

\* C7: between two successive content requests the delay elapses, whether
\* the earlier fetch succeeded or failed; no delay precedes the first
\* request and none is attached to the discovery call.
C7_DelayBetweenFetches ==
    /\ \A p, q \in FetchPositions :
          p < q => \E r \in p + 1 .. q - 1 : trace[r].ev = "sleep"
    /\ \A r \in DOMAIN trace :
          trace[r].ev = "sleep" => \E p \in FetchPositions : p < r
    /\ pc = "sleeping" => trace[Len(trace)].ev # "fetch"

\* the step in which the write of the grouped records of base_chapter raises
PersistenceWriteFails ==
    /\ pc = "fetching"
    /\ Len(trace') > Len(trace)
    /\ trace'[Len(trace')] = Ev("save", base_chapter, FALSE)

-----------------------------------------------------------------------------
(* Properties of get_clean_content                                         *)

\* C9: get_clean_content is idempotent on every input string:
\* get_clean_content(get_clean_content(x)) = get_clean_content(x).
C9_CleanIdempotent ==
    cpc = "recleaned" => recleaned = cleaned

\* a tag that opens a line: <div>, <br>, <br />
LineBreakTags ==
    {<<"<", "d", "i", "v", ">">>, <<"<", "b", "r", ">">>,
     <<"<", "b", "r", SP, "/", ">">>}

\* C10: every <div ...> open tag and every <br> tag becomes a newline of the
\* output between the text pieces it separates; get_clean_content of
\* <div>A</div><br>B is A, newline, B.
C10_LineBreaksPreserved ==
    cpc # "input" =>
        /\ raw = ExampleDivBr => cleaned = <<"A", NL, "B">>
        /\ \A t \in LineBreakTags :
              raw = <<"A">> \o t \o <<"B">> => cleaned = <<"A", NL, "B">>

\* Value "P" here
ExampleUnescaped ==
    <<"V", "a", "l", "u", "e", SP, DQ, "P", DQ, SP, "h", "e", "r", "e">>

\* C11: for every uppercase letter L, an escaped quote, L and an escaped
\* quote become the plain quoted letter "L", L kept and no backslash left,
\* in the single-backslash form \"L\" and in the double-backslash form
\* \\"L\\"; Value \\"P\\" here yields Value "P" here.
C11_QuotedLetterUnescaped ==
    cpc # "input" =>
        /\ \A l \in UpperCase :
              /\ raw = SingleEscaped(l) => cleaned = <<DQ, l, DQ>>
              /\ raw = DoubleEscaped(l) => cleaned = <<DQ, l, DQ>>
        /\ raw = ExampleDoubleEscaped => cleaned = ExampleUnescaped
        /\ raw = ExampleSingleEscaped => cleaned = ExampleUnescaped

-----------------------------------------------------------------------------
(* Properties of build_node_id                                             *)

\* TIT25LADE_CH25-2ZO
ExampleNodeId ==
    <<"T", "I", "T", "2", "5", "L", "A", "D", "E", US,
      "C", "H", "2", "5", "-", "2", "Z", "O">>

\* the underscore-joined identifier of the parts given: TIT+title,
\* CH+chapter, then the subchapter and the article that pass `given`
NodeIdOf(a, given(_)) ==
    Join(<<<<"T", "I", "T">> \o a.title, <<"C", "H">> \o a.chapter>>
         \o (IF given(a.subchapter) THEN <<a.subchapter.val>> ELSE << >>)
         \o (IF given(a.article) THEN <<a.article.val>> ELSE << >>))

IsSupplied(opt) == opt.some

\* the node id is a chapter key of the dedup step: two segments, its own
\* base chapter, not skipped as a sub-node
IsChapterKey(id) ==
    /\ Len(Split(id)) = 2
    /\ BaseChapter(id) = id
    /\ ~IsSubNode(id)

\* C12: build_node_id returns "TIT" + title + "_CH" + chapter, then "_" +
\* subchapter when a subchapter is supplied, then "_" + article when an
\* article is supplied; build_node_id("25LADE", "25-2ZO") is
\* "TIT25LADE_CH25-2ZO"; the result for title and chapter alone has exactly
\* the two segments of a chapter key.
C12_NodeIdFormat ==
    bpc = "built" =>
        /\ built = NodeIdOf(args, IsSupplied)
        /\ args = Args(Title25LADE, Chapter25ZO, None, None)
              => built = ExampleNodeId
        /\ (~args.subchapter.some /\ ~args.article.some) => IsChapterKey(built)

\* C12 as amended: a subchapter or article counts as supplied when it is
\* neither None nor empty, and the result for title and chapter alone is a
\* two-segment chapter key when neither of them holds an underscore.
C12_NodeIdFormatAmended ==
    bpc = "built" =>
        /\ built = NodeIdOf(args, Truthy)
        /\ args = Args(Title25LADE, Chapter25ZO, None, None)
              => built = ExampleNodeId
        /\ ( /\ ~Truthy(args.subchapter) /\ ~Truthy(args.article)
             /\ US \notin Range(args.title) /\ US \notin Range(args.chapter) )
              => IsChapterKey(built)

C12_Witness ==
    /\ bpc = "built"
    /\ args = Args(Title25LADE, Chapter25ZO, Some(<<"S", "U", "B">>),
                   Some(<<"A", "R", "T", "1">>))
    /\ built = ExampleNodeId \o <<US, "S", "U", "B", US, "A", "R", "T", "1">>

-----------------------------------------------------------------------------
(* The processed-chapters set of fetch_all_austin_chapters                 *)

\* the positions of the content responses that arrived, of the chapter
\* writes, and the failures of the processing between the two
OkResponses == {p \in DOMAIN trace : trace[p].ev = "response" /\ trace[p].ok}

ChapterWrites ==
    {p \in DOMAIN trace : trace[p].ev = "save" /\ trace[p].key # StructureFile}

ProcessingFailures == {k \in DOMAIN failures : failures[k][2] = "processing"}

\* the write at position q belongs to the content fetch answered at q - 1
WriteFollowsFetch(q) ==
    /\ q >= 3
    /\ trace[q - 1] = Ev("response", trace[q].key, TRUE)
    /\ trace[q - 2] = Ev("fetch", trace[q].key, TRUE)

\* a key is in the set only if one attempt fetched and wrote it successfully
FetchedAndWritten(key) ==
    \E q \in ChapterWrites :
        trace[q] = Ev("save", key, TRUE) /\ WriteFollowsFetch(q)

\* C13: in every reachable state a key is in the processed set only if a
\* content fetch for it and the write of its records both succeeded; a
\* chapter write happens exactly once per successful content fetch and
\* never for a failed one; the count reported at the end is the size of
\* the set.  (That the set only grows is the step property of the amended
\* statement below; it holds.)
C13_WriteOncePerSuccessfulFetch ==
    /\ \A key \in processed_chapters : FetchedAndWritten(key)
    /\ \A q \in ChapterWrites : WriteFollowsFetch(q)
    /\ \A p \in OkResponses :
          p + 1 \in ChapterWrites /\ trace[p + 1].key = trace[p].key
    /\ pc = "done" => reported = Cardinality(processed_chapters)

\* C13 as amended: the processed set only grows; a key is in it only if a
\* content fetch for it and the write of its records both succeeded; a
\* chapter write happens exactly once per content fetch whose response
\* arrived and was processed without error, not at all when the processing
\* raised, and never for a failed fetch; the count reported at the end is
\* the size of the set.
C13_ProcessedSetInvariant ==
    /\ [](/\ \A key \in processed_chapters : FetchedAndWritten(key)
          /\ \A q \in ChapterWrites : WriteFollowsFetch(q)
          /\ \A p \in OkResponses :
                \/ p + 1 \in ChapterWrites /\ trace[p + 1].key = trace[p].key
                \/ /\ p + 1 \notin ChapterWrites
                   /\ \E k \in ProcessingFailures : failures[k][1] = trace[p].key
          /\ Cardinality(OkResponses) =
                Cardinality(ChapterWrites) + Cardinality(ProcessingFailures)
          /\ pc = "done" => reported = Cardinality(processed_chapters))
    /\ [][processed_chapters \subseteq processed_chapters']_vars

C13_Witness ==
    /\ pc = "done"
    /\ reported = 1
    /\ processed_chapters = {Ch1}
    /\ \E k \in ProcessingFailures : failures[k][1] = Ch2
    /\ \E k \in DOMAIN failures : failures[k] = <<RootId, "transport">>

====
